---- MODULE Spec2Model ----
(***************************************************************************)
(* A model of app.py, the Streamlit script that compares Lasso and Ridge   *)
(* coefficient shrinkage.  The script is re-executed from top to bottom    *)
(* after every widget interaction; one execution is a render pass.  A      *)
(* render pass is modelled stage by stage (pc), the widgets' stored values *)
(* (session) and the process-wide NumPy generator (np_global) outlive a    *)
(* pass, everything else is a script variable that a new pass starts       *)
(* without.                                                                *)
(*                                                                         *)
(* Numbers.  A regularization strength 10^(e/99) is held as its exponent e *)
(* in units of 1/99 decade, which is exact for the grid np.logspace(-4, 4, *)
(* 100) and for the eight selectable values.  Coefficients are fixed-point *)
(* integers in units of 0.01.  The Mersenne Twister behind RandomState is  *)
(* abstracted by a small congruential generator: what is kept is that a    *)
(* stream is a deterministic function of its seed.  The estimators of the  *)
(* numerical library are abstracted by their closed form on an orthogonal  *)
(* design (soft thresholding for Lasso, proportional shrinkage for Ridge). *)
(***************************************************************************)
EXTENDS Integers, Sequences, FiniteSets, TLC

VARIABLES
    session,        \* the widgets' values kept by the framework between passes
    np_global,      \* state of the process-wide NumPy generator (np.random)
    pc,             \* the stage the current render pass is at
    n_samples, n_features, n_informative, noise, random_state, selected_alpha,
    X, y, coef_true,            \* make_regression's results (<<>> before the call)
    X_train, X_test,            \* the rows of X (and of y) in each partition
    lasso_coefs, ridge_coefs,   \* the coefficient paths
    l_metrics, r_metrics,       \* get_metrics' results for Lasso and Ridge
    page,           \* what the pass has put on the page so far
    fit_log,        \* history: one entry per call of model.fit in this pass
    suppressed      \* history: warnings the filter has dropped in this pass

script == <<n_samples, n_features, n_informative, noise, random_state,
            selected_alpha, X, y, coef_true, X_train, X_test, lasso_coefs,
            ridge_coefs, l_metrics, r_metrics, page, fit_log, suppressed>>
vars == <<session, np_global, pc, script>>

(***************************************************************************)
(* Widget ranges and defaults                                              *)
(***************************************************************************)
SAMPLES_MIN == 50
SAMPLES_MAX == 1000
SAMPLES_DEFAULT == 200
SAMPLES_STEP == 50
FEATURES_MIN == 2
FEATURES_MAX == 50
FEATURES_DEFAULT == 20
INFORMATIVE_MIN == 1
NOISE_MIN == 0
NOISE_MAX == 50
NOISE_DEFAULT == 10
SEED_DEFAULT == 42
\* options=[0.0001, 0.001, 0.01, 0.1, 1.0, 10.0, 100.0, 1000.0], value=1.0
ALPHA_OPTIONS == {99 * k : k \in -4..3}
ALPHA_DEFAULT == 0

SamplesRange == {v \in SAMPLES_MIN..SAMPLES_MAX : (v - SAMPLES_MIN) % SAMPLES_STEP = 0}
FeaturesRange == FEATURES_MIN..FEATURES_MAX
NoiseRange == NOISE_MIN..NOISE_MAX

Max(a, b) == IF a >= b THEN a ELSE b
Min(a, b) == IF a <= b THEN a ELSE b
Abs(a) == IF a < 0 THEN 0 - a ELSE a

\* max(1, n_features // 2), the informative slider's default
InformativeDefault(features) == Max(1, features \div 2)

\* The identity of the informative slider: a widget created without a key is
\* identified by its arguments (label, min, max, value, step).
InformativeId(features) ==
    <<INFORMATIVE_MIN, features, InformativeDefault(features)>>

\* A slider call: the stored value of the widget with this identity, or the
\* default when the framework holds no widget with this identity.
SliderStale(stored, id, default) == stored.value
slider(stored, id, default) ==
    IF stored.id = id THEN stored.value ELSE default

(***************************************************************************)
(* The random generator                                                    *)
(***************************************************************************)
RNG_MOD == 2^16 + 1
NextRand(s) == (75 * s + 74) % RNG_MOD
\* element i of the block of draws that starts at state s
Elem(s, i) == NextRand((s + i) % RNG_MOD)

\* RandomState(seed) accepts 0 <= seed <= 2^32 - 1
SeedAccepted(seed) == seed >= 0 /\ (seed \div 65536) < 65536

\* sklearn.utils.check_random_state for an int argument: a fresh generator
\* seeded with it (ValueError when the seed is out of range).  g is the
\* process-wide generator, used when no seed is given.
check_random_state_global(seed, g) ==
    [ok |-> TRUE, state |-> g, shared |-> TRUE]
check_random_state(seed, g) ==
    IF SeedAccepted(seed)
    THEN [ok |-> TRUE, state |-> seed % RNG_MOD, shared |-> FALSE]
    ELSE [ok |-> FALSE, state |-> 0, shared |-> FALSE]

Swap(a, i, j) == [a EXCEPT ![i] = a[j], ![j] = a[i]]

\* generator.shuffle / generator.permutation: Fisher-Yates from the last
\* position down, one draw per position.  Returns the permuted sequence and
\* the generator's state afterwards.  ShuffleDown does the positions from i
\* down to stop + 1; Shuffle does all of them, 32 at a time.
RECURSIVE ShuffleDown(_, _, _, _)
ShuffleDown(a, i, stop, s) ==
    IF i <= stop \/ Len(a) < 2 THEN [perm |-> a, state |-> s]
    ELSE LET s1 == NextRand(s)
             j  == 1 + (s1 % i)
         IN  ShuffleDown(Swap(a, i, j), i - 1, stop, s1)

RECURSIVE Shuffle(_, _, _)
Shuffle(a, i, s) ==
    IF i < 2 \/ Len(a) < 2 THEN [perm |-> a, state |-> s]
    ELSE LET stop == IF i > 33 THEN i - 32 ELSE 1
             r    == ShuffleDown(a, i, stop, s)
         IN  Shuffle(r.perm, stop, r.state)

\* np.arange(first, first + n), as an explicit sequence
arange(first, n) == <<>> \o [k \in 1..n |-> first + k - 1]

\* rng.permutation(n): a permutation of 0..n-1
permutation(n, s) == Shuffle(arange(0, n), n, s)

(***************************************************************************)
(* make_regression                                                         *)
(***************************************************************************)
\* X, y and the ground truth for one generator.  X and y are held by their
\* shape and by the generator states their entries were drawn at; the
\* ground truth is 100 * uniform on the first n_informative features, zero
\* elsewhere, then permuted by the feature shuffle.
make_regression(samples, features, informative, noise_sd, gen) ==
    LET sX     == NextRand(gen)                 \* standard_normal(samples x features)
        sW     == NextRand(sX)                  \* uniform(informative)
        truth  == [j \in 1..features |->
                      IF j <= Min(features, informative)
                      THEN 100 * (1 + (Elem(sW, j) % 99)) ELSE 0]
        sN     == IF noise_sd > 0 THEN NextRand(sW) ELSE sW   \* normal(scale=noise)
        sR     == NextRand(sN)                  \* util_shuffle of the rows
        sh     == Shuffle(arange(1, features), features, sR)
        w      == [j \in 1..features |-> truth[sh.perm[j]]]
    IN  [X |-> [shape |-> <<samples, features>>, draws |-> <<sX, sR, sh.state>>],
         y |-> [shape |-> <<samples>>, coef |-> w, noise |-> noise_sd,
                draws |-> <<sX, sN, sR>>],
         coef |-> w,
         state |-> sh.state]

(***************************************************************************)
(* train_test_split                                                        *)
(***************************************************************************)
\* The double 0.2 is 0x1999999999999A * 2^-55, held in limbs of 20 bits,
\* least significant first.
Limb == 2^20
TEST_SIZE == <<629146, 629145, 6553>>

RECURSIVE BitLen(_)
BitLen(x) == IF x = 0 THEN 0 ELSE 1 + BitLen(x \div 2)

\* The double product f * n for 1 <= n < 2^10, rounded to 53 significant
\* bits with ties to even, in the same limbs and scale as f.
FloatTimesInt(f, n) ==
    LET r0 == n * f[1]
        r1 == n * f[2] + (r0 \div Limb)
        p0 == r0 % Limb
        p1 == r1 % Limb
        p2 == n * f[3] + (r1 \div Limb)
        s  == (40 + BitLen(p2)) - 53
        rem == p0 % (2^s)
        up == /\ s > 0
              /\ \/ 2 * rem > 2^s
                 \/ 2 * rem = 2^s /\ (p0 \div (2^s)) % 2 = 1
        q0 == p0 - rem + (IF up THEN 2^s ELSE 0)
        q1 == p1 + (q0 \div Limb)
    IN  <<q0 % Limb, q1 % Limb, p2 + (q1 \div Limb)>>

\* math.ceil of a double in that scale (2^-55)
Ceil(d) ==
    (d[3] \div 2^15) + (IF d[3] % 2^15 # 0 \/ d[2] # 0 \/ d[1] # 0 THEN 1 ELSE 0)

\* _validate_shuffle_split with test_size=0.2, train_size=None
NTest(n) == Ceil(FloatTimesInt(TEST_SIZE, n))
NTrain(n) == n - NTest(n)

\* ShuffleSplit: ind_test = permutation[:n_test],
\*               ind_train = permutation[n_test:n_test + n_train]
train_test_split_overlap(samples, gen) ==
    LET p == permutation(samples, gen).perm
    IN  [train |-> SubSeq(p, NTest(samples), NTest(samples) + NTrain(samples) - 1),
         test  |-> SubSeq(p, 1, NTest(samples))]
train_test_split(samples, gen) ==
    LET p == permutation(samples, gen).perm
    IN  [train |-> SubSeq(p, NTest(samples) + 1, NTest(samples) + NTrain(samples)),
         test  |-> SubSeq(p, 1, NTest(samples))]

(***************************************************************************)
(* Warnings and exceptions                                                 *)
(***************************************************************************)
\* Line 12: warnings.filterwarnings("ignore")
WARNING_FILTER == "ignore"

\* A stage in which k fits end without converging: the solver issues a
\* ConvergenceWarning for each and still sets coef_.  Under "error" the first
\* warning is raised as an exception, under "ignore" the warnings are
\* dropped, otherwise they are shown.  Whether a fit converges is the
\* solver's matter: k is 0 or 1 in each stage that fits Lasso models.
WarningRaises(k) == k > 0 /\ WARNING_FILTER = "error"
WarningsDropped(k) == IF WARNING_FILTER = "ignore" THEN k ELSE 0
WarningsShown(k) == IF WARNING_FILTER \in {"ignore", "error"} THEN 0 ELSE k

\* The script has no try/except: where the pass is after an exception in a
\* stage.  "fault" is the end of the pass.
AfterExceptionFallback(stage, next) == next
AfterException(stage, next) == "fault"

\* the page after an exception in a stage: the framework shows the exception
Excepted(stage, what) == [page EXCEPT !.exception = <<stage, what>>]

(***************************************************************************)
(* A render pass                                                           *)
(***************************************************************************)
NoPage == [info |-> <<>>, fig |-> <<>>, metrics_df |-> <<>>, coef_df |-> <<>>,
           exception |-> <<>>, warnings |-> 0]

\* the script variables before the script has assigned them
Unassigned ==
    /\ n_samples = 0 /\ n_features = 0 /\ n_informative = 0 /\ noise = 0
    /\ random_state = 0 /\ selected_alpha = 0
    /\ X = <<>> /\ y = <<>> /\ coef_true = <<>>
    /\ X_train = <<>> /\ X_test = <<>>
    /\ lasso_coefs = <<>> /\ ridge_coefs = <<>>
    /\ l_metrics = <<>> /\ r_metrics = <<>>
    /\ page = NoPage /\ fit_log = <<>> /\ suppressed = 0

Init ==
    /\ session = [n_samples |-> SAMPLES_DEFAULT, n_features |-> FEATURES_DEFAULT,
                  informative |-> [id |-> <<>>, value |-> 0],
                  noise |-> NOISE_DEFAULT, random_state |-> SEED_DEFAULT,
                  selected_alpha |-> ALPHA_DEFAULT]
    /\ np_global = 0
    /\ pc = "widgets"
    /\ Unassigned

\* Lines 24-35: the sidebar widgets return their values.
Widgets ==
    /\ pc = "widgets"
    /\ n_samples' = session.n_samples
    /\ n_features' = session.n_features
    /\ n_informative' = slider(session.informative,
                               InformativeId(session.n_features),
                               InformativeDefault(session.n_features))
    /\ noise' = session.noise
    /\ random_state' = session.random_state
    /\ selected_alpha' = session.selected_alpha
    /\ session' = [session EXCEPT !.informative =
                      [id |-> InformativeId(session.n_features),
                       value |-> n_informative']]
    /\ pc' = "generate"
    /\ UNCHANGED <<np_global, X, y, coef_true, X_train, X_test, lasso_coefs,
                   ridge_coefs, l_metrics, r_metrics, page, fit_log, suppressed>>

\* Lines 38-45: X, y, coef_true = make_regression(...)
Generate ==
    /\ pc = "generate"
    /\ LET g == check_random_state(random_state, np_global)
       IN  IF ~g.ok
           THEN /\ pc' = AfterException("generate", "split")
                /\ page' = Excepted("generate", "ValueError")
                /\ UNCHANGED <<X, y, coef_true, np_global>>
           ELSE LET d == make_regression(n_samples, n_features, n_informative,
                                         noise, g.state)
                IN  /\ X' = <<d.X>>
                    /\ y' = <<d.y>>
                    /\ coef_true' = d.coef
                    /\ np_global' = IF g.shared THEN d.state ELSE np_global
                    /\ pc' = "split"
                    /\ UNCHANGED page
    /\ UNCHANGED <<session, n_samples, n_features, n_informative, noise,
                   random_state, selected_alpha, X_train, X_test, lasso_coefs,
                   ridge_coefs, l_metrics, r_metrics, fit_log, suppressed>>

\* Lines 48-55: the split, then the two info boxes
Split ==
    /\ pc = "split"
    /\ LET g == check_random_state(random_state, np_global)
       IN  IF ~g.ok
           THEN /\ pc' = AfterException("split", "sweep_lasso")
                /\ page' = Excepted("split", "ValueError")
                /\ UNCHANGED <<X_train, X_test, np_global>>
           ELSE LET sp == train_test_split(n_samples, g.state)
                IN  /\ X_train' = sp.train
                    /\ X_test' = sp.test
                    /\ np_global' = IF g.shared
                                    THEN permutation(n_samples, g.state).state
                                    ELSE np_global
                    /\ page' = [page EXCEPT !.info =
                                   <<<<n_samples, n_features, n_informative>>,
                                     <<Len(sp.train), n_features>>>>]
                    /\ pc' = "sweep_lasso"
    /\ UNCHANGED <<session, n_samples, n_features, n_informative, noise,
                   random_state, selected_alpha, X, y, coef_true, lasso_coefs,
                   ridge_coefs, l_metrics, r_metrics, fit_log, suppressed>>

(***************************************************************************)
(* The estimators                                                          *)
(***************************************************************************)
\* np.logspace(-4, 4, 100): entry i is 10^(-4 + 8(i-1)/99)
GRID_SIZE == 100
GRID_LOW == -4
GRID_HIGH == 4
alphas == [i \in 1..GRID_SIZE |->
              99 * GRID_LOW + ((99 * (GRID_HIGH - GRID_LOW)) \div (GRID_SIZE - 1)) * (i - 1)]

\* 1000 * 10^(r/99) for r = 0..98, rounded
Mantissa ==
    <<1000, 1024, 1048, 1072, 1097, 1123, 1150, 1177, 1205, 1233, 1262,
      1292, 1322, 1353, 1385, 1417, 1451, 1485, 1520, 1556, 1592, 1630,
      1668, 1707, 1748, 1789, 1831, 1874, 1918, 1963, 2009, 2057, 2105,
      2154, 2205, 2257, 2310, 2364, 2420, 2477, 2535, 2595, 2656, 2719,
      2783, 2848, 2915, 2984, 3054, 3126, 3199, 3275, 3352, 3430, 3511,
      3594, 3678, 3765, 3854, 3944, 4037, 4132, 4229, 4329, 4431, 4535,
      4642, 4751, 4863, 4977, 5094, 5214, 5337, 5462, 5591, 5722, 5857,
      5995, 6136, 6280, 6428, 6579, 6734, 6893, 7055, 7221, 7391, 7565,
      7743, 7925, 8111, 8302, 8498, 8697, 8902, 9112, 9326, 9545, 9770>>

\* the strength 10^(e/99) in units of 0.01
AlphaCenti(e) ==
    LET q == e \div 99
        m == Mantissa[(e % 99) + 1]
    IN  IF q >= 1 THEN m * 10^(q - 1) ELSE m \div 10^(1 - q)

MAX_ITER == 10000
\* model_class(alpha=a, max_iter=10000): an estimator that has not been fitted
NewModel(model_class, a) ==
    [cls |-> model_class, alpha |-> a, max_iter |-> MAX_ITER, coef_ |-> <<>>]

\* The least-squares estimate of coefficient j on the training rows, in
\* units of 0.01: the ground truth plus an error proportional to the noise.
Estimate(Xtr, yrec, j) ==
    yrec.coef[j] + yrec.noise * ((Elem(yrec.draws[2], j + Xtr[1]) % 21) - 10)

Sign(a) == IF a < 0 THEN -1 ELSE IF a > 0 THEN 1 ELSE 0

\* Both take the estimate b and the strength a in units of 0.01.
\* Lasso, objective (1/2n)|y - Xw|^2 + alpha |w|_1: soft thresholding
LassoCoef(b, a) == Sign(b) * Max(Abs(b) - a, 0)
\* Ridge, objective |y - Xw|^2 + alpha |w|^2: shrinkage by n / (n + alpha)
RidgeCoef(b, a, n) == Sign(b) * ((n * 100 * Abs(b)) \div (n * 100 + a))

\* model.fit(X_train, y_train): the model with coef_ set
fit(model, Xtr, yrec) ==
    LET a == AlphaCenti(model.alpha)
        n == Len(Xtr)
    IN  [model EXCEPT !.coef_ =
            <<>> \o [j \in 1..Len(yrec.coef) |->
                        IF model.cls = "Lasso"
                        THEN LassoCoef(Estimate(Xtr, yrec, j), a)
                        ELSE RidgeCoef(Estimate(Xtr, yrec, j), a, n)]]

\* one entry of the history of fits: which estimator, at which strength, and
\* whether the model object was new (never fitted) when fit was called
FitEntry(model) ==
    [cls |-> model.cls, alpha |-> model.alpha, fresh |-> model.coef_ = <<>>]

\* Lines 58-64: compute_paths.  acc is the list coefs so far and the history
\* of the fits made; the loop is at the strength after the last one fitted.
RECURSIVE compute_paths_loop(_, _, _, _, _)
compute_paths_loop(model_class, Xtr, yrec, as, acc) ==
    IF Len(acc.coefs) >= Len(as) THEN acc
    ELSE LET model  == NewModel(model_class, as[Len(acc.coefs) + 1])
             fitted == fit(model, Xtr, yrec)
         IN  compute_paths_loop(model_class, Xtr, yrec, as,
                 [coefs |-> Append(acc.coefs, fitted.coef_),
                  log |-> Append(acc.log, FitEntry(model))])

compute_paths_short(model_class, Xtr, yrec, as) ==
    compute_paths_loop(model_class, Xtr, yrec, SubSeq(as, 1, Len(as) - 1),
                       [coefs |-> <<>>, log |-> <<>>])
compute_paths(model_class, Xtr, yrec, as) ==
    compute_paths_loop(model_class, Xtr, yrec, as, [coefs |-> <<>>, log |-> <<>>])

\* sum over the coefficients of ((w_j - t_j) / 10)^2
RECURSIVE SqErr(_, _, _)
SqErr(w, t, j) ==
    IF j = 0 THEN 0
    ELSE ((w[j] - t[j]) \div 10) * ((w[j] - t[j]) \div 10) + SqErr(w, t, j - 1)

\* np.sum(model.coef_ != 0)
non_zero_count(coef) == Cardinality({j \in 1..Len(coef) : coef[j] # 0})

\* Lines 100-112: get_metrics.  Mean squared errors in units of 0.01, R2 in
\* units of 0.01.
get_metrics(model_class, a, Xtr, yrec) ==
    LET model  == NewModel(model_class, a)
        fitted == fit(model, Xtr, yrec)
        p      == Len(yrec.coef)
        b      == [j \in 1..p |-> Estimate(Xtr, yrec, j)]
        zero   == [j \in 1..p |-> 0]
        irred  == 100 * yrec.noise * yrec.noise
        mse_tr == SqErr(fitted.coef_, b, p) + irred
        mse_te == SqErr(fitted.coef_, yrec.coef, p) + irred
        tss_tr == SqErr(zero, b, p) + irred
        tss_te == SqErr(zero, yrec.coef, p) + irred
    IN  [mse_train |-> mse_tr,
         mse_test  |-> mse_te,
         r2_train  |-> 100 - (100 * (mse_tr \div 100)) \div Max(1, tss_tr \div 100),
         r2_test   |-> 100 - (100 * (mse_te \div 100)) \div Max(1, tss_te \div 100),
         non_zero  |-> non_zero_count(fitted.coef_),
         coef      |-> fitted.coef_,
         log       |-> <<FitEntry(model)>>]

(***************************************************************************)
(* The sweep, the plots, the point evaluation, the tables                  *)
(***************************************************************************)
\* Line 68: lasso_coefs = compute_paths(Lasso, X_train, y_train, alphas)
SweepLasso ==
    /\ pc = "sweep_lasso"
    /\ \E k \in {0, 1} :
          IF WarningRaises(k)
          THEN /\ pc' = AfterException("sweep_lasso", "sweep_ridge")
               /\ page' = Excepted("sweep_lasso", "ConvergenceWarning")
               /\ UNCHANGED <<lasso_coefs, fit_log, suppressed>>
          ELSE LET r == compute_paths("Lasso", X_train, y[1], alphas)
               IN  /\ lasso_coefs' = r.coefs
                   /\ fit_log' = fit_log \o r.log
                   /\ suppressed' = suppressed + WarningsDropped(k)
                   /\ page' = [page EXCEPT !.warnings = @ + WarningsShown(k)]
                   /\ pc' = "sweep_ridge"
    /\ UNCHANGED <<session, np_global, n_samples, n_features, n_informative,
                   noise, random_state, selected_alpha, X, y, coef_true,
                   X_train, X_test, ridge_coefs, l_metrics, r_metrics>>

\* Line 69: ridge_coefs = compute_paths(Ridge, X_train, y_train, alphas)
SweepRidge ==
    /\ pc = "sweep_ridge"
    /\ LET r == compute_paths("Ridge", X_train, y[1], alphas)
       IN  /\ ridge_coefs' = r.coefs
           /\ fit_log' = fit_log \o r.log
    /\ pc' = "plots"
    /\ UNCHANGED <<session, np_global, n_samples, n_features, n_informative,
                   noise, random_state, selected_alpha, X, y, coef_true,
                   X_train, X_test, lasso_coefs, l_metrics, r_metrics, page,
                   suppressed>>

\* one chart: the x values, the shape of the plotted matrix, the marker
Axes(title, xs, coefs, marker) ==
    [title |-> title, x |-> <<xs[1], xs[Len(xs)]>>,
     shape |-> <<Len(coefs), Len(coefs[1])>>, axvline |-> marker]

\* Lines 72-98: the figure with the two charts
Plots ==
    /\ pc = "plots"
    /\ page' = [page EXCEPT !.fig =
                   <<Axes("Lasso Coefficients (L1)", alphas, lasso_coefs, selected_alpha),
                     Axes("Ridge Coefficients (L2)", alphas, ridge_coefs, selected_alpha)>>]
    /\ pc' = "metrics_lasso"
    /\ UNCHANGED <<session, np_global, n_samples, n_features, n_informative,
                   noise, random_state, selected_alpha, X, y, coef_true,
                   X_train, X_test, lasso_coefs, ridge_coefs, l_metrics,
                   r_metrics, fit_log, suppressed>>

\* Line 114: get_metrics(Lasso, selected_alpha, ...)
MetricsLasso ==
    /\ pc = "metrics_lasso"
    /\ \E k \in {0, 1} :
          IF WarningRaises(k)
          THEN /\ pc' = AfterException("metrics_lasso", "metrics_ridge")
               /\ page' = Excepted("metrics_lasso", "ConvergenceWarning")
               /\ UNCHANGED <<l_metrics, fit_log, suppressed>>
          ELSE LET m == get_metrics("Lasso", selected_alpha, X_train, y[1])
               IN  /\ l_metrics' = <<m>>
                   /\ fit_log' = fit_log \o m.log
                   /\ suppressed' = suppressed + WarningsDropped(k)
                   /\ page' = [page EXCEPT !.warnings = @ + WarningsShown(k)]
                   /\ pc' = "metrics_ridge"
    /\ UNCHANGED <<session, np_global, n_samples, n_features, n_informative,
                   noise, random_state, selected_alpha, X, y, coef_true,
                   X_train, X_test, lasso_coefs, ridge_coefs, r_metrics>>

\* Line 115: get_metrics(Ridge, selected_alpha, ...)
MetricsRidge ==
    /\ pc = "metrics_ridge"
    /\ LET m == get_metrics("Ridge", selected_alpha, X_train, y[1])
       IN  /\ r_metrics' = <<m>>
           /\ fit_log' = fit_log \o m.log
    /\ pc' = "metrics_table"
    /\ UNCHANGED <<session, np_global, n_samples, n_features, n_informative,
                   noise, random_state, selected_alpha, X, y, coef_true,
                   X_train, X_test, lasso_coefs, ridge_coefs, l_metrics, page,
                   suppressed>>

\* Lines 117-121: metrics_df, one row per metric, the columns Lasso and Ridge
metrics_df_zeros(l, r, features) ==
    <<[Metric |-> "Train MSE", Lasso |-> l.mse_train, Ridge |-> r.mse_train],
      [Metric |-> "Test MSE", Lasso |-> l.mse_test, Ridge |-> r.mse_test],
      [Metric |-> "Train R2", Lasso |-> l.r2_train, Ridge |-> r.r2_train],
      [Metric |-> "Test R2", Lasso |-> l.r2_test, Ridge |-> r.r2_test],
      [Metric |-> "Non-Zero Coeffs",
       Lasso |-> <<features - l.non_zero, features>>,
       Ridge |-> <<features - r.non_zero, features>>]>>
metrics_df(l, r, features) ==
    <<[Metric |-> "Train MSE", Lasso |-> l.mse_train, Ridge |-> r.mse_train],
      [Metric |-> "Test MSE", Lasso |-> l.mse_test, Ridge |-> r.mse_test],
      [Metric |-> "Train R2", Lasso |-> l.r2_train, Ridge |-> r.r2_train],
      [Metric |-> "Test R2", Lasso |-> l.r2_test, Ridge |-> r.r2_test],
      [Metric |-> "Non-Zero Coeffs",
       Lasso |-> <<l.non_zero, features>>, Ridge |-> <<r.non_zero, features>>]>>

\* Line 123: st.table(metrics_df)
MetricsTable ==
    /\ pc = "metrics_table"
    /\ page' = [page EXCEPT !.metrics_df =
                   metrics_df(l_metrics[1], r_metrics[1], n_features)]
    /\ pc' = "coef_table"
    /\ UNCHANGED <<session, np_global, n_samples, n_features, n_informative,
                   noise, random_state, selected_alpha, X, y, coef_true,
                   X_train, X_test, lasso_coefs, ridge_coefs, l_metrics,
                   r_metrics, fit_log, suppressed>>

\* Lines 127-132: coef_df, one row per feature F0, F1, ...
coef_df(features, truth, l_coef, r_coef) ==
    [i \in 1..features |->
        [Feature |-> i - 1, True |-> truth[i], Lasso |-> l_coef[i], Ridge |-> r_coef[i]]]

HEAD_ROWS == 20
TRUNCATE_OVER == 20
\* DataFrame.head(n)
head(df, n) == SubSeq(df, 1, Min(n, Len(df)))

\* Lines 133-137: the table that is displayed
displayed_coef_df_all(features, df) == df
displayed_coef_df(features, df) ==
    IF features > TRUNCATE_OVER THEN head(df, HEAD_ROWS) ELSE df

CoefTable ==
    /\ pc = "coef_table"
    /\ page' = [page EXCEPT !.coef_df =
                   displayed_coef_df(n_features,
                       coef_df(n_features, coef_true, l_metrics[1].coef,
                               r_metrics[1].coef))]
    /\ pc' = "done"
    /\ UNCHANGED <<session, np_global, n_samples, n_features, n_informative,
                   noise, random_state, selected_alpha, X, y, coef_true,
                   X_train, X_test, lasso_coefs, ridge_coefs, l_metrics,
                   r_metrics, fit_log, suppressed>>

\* An exception out of a library call of a stage (a MemoryError, say)
LibraryFault ==
    /\ \E st \in {<<"generate", "split">>, <<"split", "sweep_lasso">>,
                  <<"sweep_lasso", "sweep_ridge">>, <<"sweep_ridge", "plots">>,
                  <<"metrics_lasso", "metrics_ridge">>,
                  <<"metrics_ridge", "metrics_table">>} :
          /\ pc = st[1]
          /\ pc' = AfterException(st[1], st[2])
          /\ page' = Excepted(st[1], "LibraryError")
    /\ UNCHANGED <<session, np_global, n_samples, n_features, n_informative,
                   noise, random_state, selected_alpha, X, y, coef_true,
                   X_train, X_test, lasso_coefs, ridge_coefs, l_metrics,
                   r_metrics, fit_log, suppressed>>

(***************************************************************************)
(* Interactions                                                            *)
(***************************************************************************)
\* The script is not running: the pass has ended, normally or by a fault.
Idle == pc \in {"done", "fault"}

\* The framework reruns the script from the top with the widgets' values s.
NewPass(s) ==
    /\ session' = s
    /\ pc' = "widgets"
    /\ n_samples' = 0 /\ n_features' = 0 /\ n_informative' = 0 /\ noise' = 0
    /\ random_state' = 0 /\ selected_alpha' = 0
    /\ X' = <<>> /\ y' = <<>> /\ coef_true' = <<>>
    /\ X_train' = <<>> /\ X_test' = <<>>
    /\ lasso_coefs' = <<>> /\ ridge_coefs' = <<>>
    /\ l_metrics' = <<>> /\ r_metrics' = <<>>
    /\ page' = NoPage /\ fit_log' = <<>> /\ suppressed' = 0
    /\ UNCHANGED np_global

SetSamples(S) ==
    /\ Idle
    /\ \E v \in (S \cap SamplesRange) \ {session.n_samples} :
          NewPass([session EXCEPT !.n_samples = v])

SetFeatures(S) ==
    /\ Idle
    /\ \E v \in (S \cap FeaturesRange) \ {session.n_features} :
          NewPass([session EXCEPT !.n_features = v])

\* the informative slider as the last pass drew it: from 1 to its max
SetInformative(S) ==
    /\ Idle
    /\ \E v \in (S \cap (session.informative.id[1]..session.informative.id[2]))
                  \ {session.informative.value} :
          NewPass([session EXCEPT !.informative.value = v])

SetNoise(S) ==
    /\ Idle
    /\ \E v \in (S \cap NoiseRange) \ {session.noise} :
          NewPass([session EXCEPT !.noise = v])

\* number_input(value=42, step=1): no min_value, no max_value
\* the informative slider dragged to one of its ends
SetInformativeEnd ==
    /\ Idle
    /\ \E v \in {session.informative.id[1], session.informative.id[2]}
                  \ {session.informative.value} :
          NewPass([session EXCEPT !.informative.value = v])

SetSeed(S) ==
    /\ Idle
    /\ \E v \in S \ {session.random_state} :
          NewPass([session EXCEPT !.random_state = v])

SetAlpha(S) ==
    /\ Idle
    /\ \E v \in (S \cap ALPHA_OPTIONS) \ {session.selected_alpha} :
          NewPass([session EXCEPT !.selected_alpha = v])

\* a rerun with nothing changed
Rerun == Idle /\ NewPass(session)

(***************************************************************************)
(* Specifications                                                          *)
(***************************************************************************)
Pass ==
    \/ Widgets \/ Generate \/ Split \/ SweepLasso \/ SweepRidge \/ Plots
    \/ MetricsLasso \/ MetricsRidge \/ MetricsTable \/ CoefTable

SamplesPick == {SAMPLES_MIN, SAMPLES_DEFAULT}
FeaturesPick == {FEATURES_MIN, FEATURES_DEFAULT, FEATURES_DEFAULT + 1}
InformativePick == {1, 2, 10, 21}
NoisePick == {NOISE_MIN, NOISE_DEFAULT}
SeedPick == {-1, 0, SEED_DEFAULT}
AlphaPick == {-396, ALPHA_DEFAULT, 297}

\* every control, each over a few of its values
Next ==
    \/ Pass
    \/ SetSamples(SamplesPick) \/ SetFeatures(FeaturesPick)
    \/ SetInformative(InformativePick) \/ SetNoise(NoisePick)
    \/ SetSeed(SeedPick) \/ SetAlpha(AlphaPick) \/ Rerun
Spec == Init /\ [][Next]_vars

\* the two feature sliders over their whole ranges
NextFeatures == Pass \/ SetFeatures(FeaturesRange) \/ SetInformativeEnd
SpecFeatures == Init /\ [][NextFeatures]_vars

\* the sample slider over its whole range, the seed, and the noise
NextSamples ==
    Pass \/ SetSamples(SamplesRange) \/ SetSeed(SeedPick \cup {1}) \/ SetNoise(NoisePick)
SpecSamples == Init /\ [][NextSamples]_vars

\* the strength selector over its whole range, with library exceptions
NextFaults ==
    \/ Pass \/ LibraryFault
    \/ SetAlpha(ALPHA_OPTIONS) \/ SetSeed(SeedPick) \/ SetNoise(NoisePick)
SpecFaults == Init /\ [][NextFaults]_vars

(***************************************************************************)
(* Properties                                                              *)
(***************************************************************************)
Range(q) == {q[i] : i \in 1..Len(q)}
AfterSplit == {"sweep_lasso", "sweep_ridge", "plots", "metrics_lasso",
               "metrics_ridge", "metrics_table", "coef_table", "done"}
AfterSweep == {"plots", "metrics_lasso", "metrics_ridge", "metrics_table",
               "coef_table", "done"}

\* C1: when a pass has ended normally, the displayed coefficient table has
\* n_features rows if n_features <= 20 and 20 rows otherwise, and its rows
\* are the features F0, F1, ... in order, each with that feature's ground
\* truth.
C1_CoefTableRows ==
    pc = "done" =>
        /\ Len(page.coef_df) = (IF n_features <= 20 THEN n_features ELSE 20)
        /\ \A i \in 1..Len(page.coef_df) :
              /\ page.coef_df[i].Feature = i - 1
              /\ page.coef_df[i].True = coef_true[i]
C1_Witness ==
    pc = "done" /\ n_features = 50 /\ Len(page.coef_df) = 20

\* C2: once the widgets of a pass have returned, the configuration of the
\* pass has 2 <= n_features <= 50 and 1 <= n_informative <= n_features.
C2_InformativeWithinFeatures ==
    pc # "widgets" =>
        /\ n_features \in 2..50
        /\ 1 <= n_informative
        /\ n_informative <= n_features
\* the feature slider has been lowered below the informative value of the
\* pass before, and the script is about to read the widgets
C2_Witness ==
    /\ pc = "widgets"
    /\ session.informative.id # <<>>
    /\ session.informative.value > session.n_features

\* C3: no pass ends in a fault at generation or at the split.
C3_NoFaultAtGenerationOrSplit ==
    ~(pc = "fault" /\ page.exception[1] \in {"generate", "split"})

\* What a pass computes, as a function of the configuration alone.
RenderOf(samples, features, informative, noise_sd, seed, a) ==
    LET g  == check_random_state(seed, 0)
        d  == make_regression(samples, features, informative, noise_sd, g.state)
        sp == train_test_split(samples, g.state)
        l  == get_metrics("Lasso", a, sp.train, d.y)
        r  == get_metrics("Ridge", a, sp.train, d.y)
    IN  [X |-> d.X, y |-> d.y, coef_true |-> d.coef,
         X_train |-> sp.train, X_test |-> sp.test,
         lasso_coefs |-> compute_paths("Lasso", sp.train, d.y, alphas).coefs,
         ridge_coefs |-> compute_paths("Ridge", sp.train, d.y, alphas).coefs,
         metrics_df |-> metrics_df(l, r, features),
         coef_df |-> displayed_coef_df(features,
                         coef_df(features, d.coef, l.coef, r.coef))]

\* C4: when a pass has ended normally, its dataset, ground truth, split,
\* coefficient paths and tables are those that the configuration of the pass
\* determines, whatever passes came before it.
C4_OutputFunctionOfConfiguration ==
    pc = "done" =>
        [X |-> X[1], y |-> y[1], coef_true |-> coef_true,
         X_train |-> X_train, X_test |-> X_test,
         lasso_coefs |-> lasso_coefs, ridge_coefs |-> ridge_coefs,
         metrics_df |-> page.metrics_df, coef_df |-> page.coef_df]
        = RenderOf(n_samples, n_features, n_informative, noise, random_state,
                   selected_alpha)
\* a pass that ended normally after every control but the seed was changed
C4_Witness ==
    /\ pc = "done"
    /\ n_samples = 50 /\ n_features = 21 /\ n_informative = 21
    /\ noise = 0 /\ random_state = 0 /\ selected_alpha = 297

\* C5: after the split, the train rows and the test rows are disjoint, each
\* row of the dataset is in exactly one of them exactly once, the train part
\* has 80% and the test part 20% of the rows, and the two parts are those
\* that the seed and the sample count determine.
C5_SplitPartition ==
    pc \in AfterSplit =>
        /\ Range(X_train) \cap Range(X_test) = {}
        /\ Range(X_train) \cup Range(X_test) = 0..(n_samples - 1)
        /\ Len(X_train) + Len(X_test) = n_samples
        /\ 5 * Len(X_train) = 4 * n_samples
        /\ 5 * Len(X_test) = n_samples
        /\ LET sp == train_test_split(n_samples,
                                      check_random_state(random_state, 0).state)
           IN  X_train = sp.train /\ X_test = sp.test
C5_Witness ==
    /\ pc = "done" /\ n_samples = 1000 /\ random_state = 1 /\ noise = 0
    /\ Len(X_train) = 800 /\ Len(X_test) = 200

\* C6: after the sweep the pass has made exactly 200 fits: 100 Lasso fits,
\* then 100 Ridge fits, each on a model never fitted before, each family in
\* increasing strength order; each path has 100 rows of n_features entries,
\* and row i is the coefficients fitted at the i-th strength of the grid.
C6_SweepFits ==
    pc \in AfterSweep =>
        /\ Len(fit_log) >= 200
        /\ pc \in {"plots", "metrics_lasso"} => Len(fit_log) = 200
        /\ Len(lasso_coefs) = 100 /\ Len(ridge_coefs) = 100
        /\ \A i \in 1..100 :
              /\ fit_log[i] = [cls |-> "Lasso", alpha |-> alphas[i], fresh |-> TRUE]
              /\ fit_log[100 + i] = [cls |-> "Ridge", alpha |-> alphas[i], fresh |-> TRUE]
              /\ Len(lasso_coefs[i]) = n_features
              /\ Len(ridge_coefs[i]) = n_features
              /\ lasso_coefs[i] = fit(NewModel("Lasso", alphas[i]), X_train, y[1]).coef_
              /\ ridge_coefs[i] = fit(NewModel("Ridge", alphas[i]), X_train, y[1]).coef_
        /\ \A i \in 1..99 : alphas[i] < alphas[i + 1]
        /\ alphas[1] = -396 /\ alphas[100] = 396
C6_Witness ==
    pc = "plots" /\ Len(fit_log) = 200 /\ n_features = 21 /\ n_samples = 50

\* C7: the last row of the displayed metrics table holds, for each family,
\* the number of coefficients of the model fitted at the selected strength
\* that are not zero; the number is in 0..n_features, and it is 0 exactly
\* when every coefficient of that model is zero.
C7_NonZeroCount ==
    pc \in {"coef_table", "done"} =>
        LET row == page.metrics_df[5]
            lc  == fit(NewModel("Lasso", selected_alpha), X_train, y[1]).coef_
            rc  == fit(NewModel("Ridge", selected_alpha), X_train, y[1]).coef_
        IN  /\ row.Metric = "Non-Zero Coeffs"
            /\ row.Lasso = <<Cardinality({j \in 1..n_features : lc[j] # 0}), n_features>>
            /\ row.Ridge = <<Cardinality({j \in 1..n_features : rc[j] # 0}), n_features>>
            /\ row.Lasso[1] \in 0..n_features /\ row.Ridge[1] \in 0..n_features
            /\ row.Lasso[1] = 0 <=> \A j \in 1..n_features : lc[j] = 0
            /\ row.Ridge[1] = 0 <=> \A j \in 1..n_features : rc[j] = 0
            /\ fit_log[201].alpha = selected_alpha
            /\ fit_log[202].alpha = selected_alpha
\* Lasso at strength 1000.0: every coefficient is zero, Ridge keeps some
C7_Witness ==
    /\ pc = "done" /\ selected_alpha = 297
    /\ page.metrics_df[5].Lasso[1] = 0 /\ page.metrics_df[5].Ridge[1] > 0

\* C8: a warning never ends a pass and is never shown; a pass that ends
\* normally has put both charts and both tables on the page; an exception
\* in a stage ends the pass at once, and nothing of a later stage has been
\* computed or put on the page.
C8_FaultEndsRender ==
    /\ page.warnings = 0
    /\ page.exception # <<>> => pc = "fault" /\ page.exception[2] # "ConvergenceWarning"
    /\ pc = "done" =>
          /\ page.exception = <<>>
          /\ Len(page.fig) = 2 /\ Len(page.metrics_df) = 5 /\ Len(page.coef_df) >= 2
    /\ pc = "fault" =>
          /\ page.exception # <<>>
          /\ page.metrics_df = <<>> /\ page.coef_df = <<>>
          /\ page.exception[1] = "generate" =>
                X = <<>> /\ X_train = <<>> /\ page.info = <<>>
          /\ page.exception[1] \in {"generate", "split"} =>
                X_train = <<>> /\ lasso_coefs = <<>> /\ fit_log = <<>>
          /\ page.exception[1] \in {"generate", "split", "sweep_lasso"} =>
                ridge_coefs = <<>>
          /\ page.exception[1] \in {"generate", "split", "sweep_lasso", "sweep_ridge"} =>
                page.fig = <<>> /\ l_metrics = <<>>
          /\ page.exception[1] # "metrics_ridge" => l_metrics = <<>>
          /\ r_metrics = <<>>
\* two stages issued a warning that the filter dropped, the pass went on and
\* drew the charts, then the Ridge point fit raised: no table is shown
C8_Witness ==
    /\ pc = "fault" /\ page.exception[1] = "metrics_ridge"
    /\ suppressed = 2 /\ Len(page.fig) = 2 /\ page.metrics_df = <<>>
====
